---- MODULE Spec2Model ----
(***************************************************************************)
(* The resilient HTTP transport of the whooktown Go SDK: the retry loop    *)
(* of httpClient.doRequest, one attempt of httpClient.executeRequest, the  *)
(* error classifier parseHTTPError, and the Client that wires one          *)
(* transport per service.                                                  *)
(***************************************************************************)
EXTENDS Integers, Sequences, FiniteSets, TLC

VARIABLES
    http,        \* transport name -> httpClient fields (token, adminToken, maxRetries, retryWait)
    call,        \* call id -> the state of one doRequest invocation (arguments, locals, position)
    config,      \* Client.config as left by New and the Client's setters
    classified,  \* input and output of the classifier when it is exercised on its own
    batch        \* SensorsClient.SendMultiple: the slice, the position of its range loop, its return

vars == <<http, call, config, classified, batch>>

(***************************************************************************)
(* Bounds of the model.                                                    *)
(***************************************************************************)
MaxRetriesBound == 3
MaxWaitBound == 1
MaxConcurrentRetries == 2
MaxItems == 3

(***************************************************************************)
(* Error kinds (ErrorCode constants).                                      *)
(***************************************************************************)
ErrUnauthorized == "unauthorized"
ErrForbidden == "forbidden"
ErrNotFound == "not_found"
ErrBadRequest == "bad_request"
ErrQuotaExceeded == "quota_exceeded"
ErrInternalServer == "internal_server"
ErrNetworkError == "network_error"
ErrValidation == "validation_error"
ErrTimeout == "timeout"

ErrorCode ==
    { ErrUnauthorized, ErrForbidden, ErrNotFound, ErrBadRequest, ErrQuotaExceeded,
      ErrInternalServer, ErrNetworkError, ErrValidation, ErrTimeout }

(***************************************************************************)
(* net/http status constants used by the classifier.                       *)
(***************************************************************************)
StatusBadRequest == 400
StatusUnauthorized == 401
StatusPaymentRequired == 402
StatusForbidden == 403
StatusNotFound == 404

(***************************************************************************)
(* Values of the loosely typed `details` mapping of an error body.  A      *)
(* value is absent, a JSON string, or a JSON number (kept in tenths, so    *)
(* that the float64 -> int truncation is visible).                         *)
(***************************************************************************)
Absent == [t |-> "absent", s |-> "", n |-> 0]
JStr(s) == [t |-> "string", s |-> s, n |-> 0]
JNum(tenths) == [t |-> "number", s |-> "", n |-> tenths]

NoDetails == [present |-> FALSE, plan |-> Absent, current |-> Absent, limit |-> Absent, type |-> Absent]
DetailsOf(plan, current, limit, type) ==
    [present |-> TRUE, plan |-> plan, current |-> current, limit |-> limit, type |-> type]

\* int(f) of Go for a float64 held in tenths: truncation toward zero.
TruncTenths(n) == IF n >= 0 THEN n \div 10 ELSE -((-n) \div 10)

(***************************************************************************)
(* Response bodies.  `raw` is the text of the body; `parses` says whether   *)
(* json.Unmarshal of it into the classifier's errResp struct succeeds;     *)
(* `fits` says whether json.Unmarshal of it into the caller's destination  *)
(* succeeds.                                                               *)
(***************************************************************************)
Body(raw, parses, fits, message, error, code, details) ==
    [raw |-> raw, parses |-> parses, fits |-> fits, message |-> message,
     error |-> error, code |-> code, details |-> details]

BEmpty == Body("", FALSE, FALSE, "", "", "", NoDetails)
BText == Body("upstream exploded", FALSE, FALSE, "", "", "", NoDetails)
BObject == Body("{..}", TRUE, TRUE, "", "", "", NoDetails)
\* A JSON object whose `message` is a number: json.Unmarshal fills the other fields
\* of errResp and returns an UnmarshalTypeError, so the body does not parse.
BIllTyped == Body("{ill-typed}", FALSE, FALSE, "", "", "QUOTA_EXCEEDED", NoDetails)
\* A JSON object that decodes into errResp but whose fields do not all have the
\* types of the caller's destination.
BMismatch == Body("{mismatch}", TRUE, FALSE, "", "", "", NoDetails)
BQuota ==
    Body("{quota}", TRUE, TRUE, "asset quota reached", "", "ASSET_QUOTA_EXCEEDED",
         DetailsOf(JStr("free"), JNum(50), JNum(50), JStr("assets")))

\* The body is well-formed JSON.  json.Unmarshal checks this before it writes
\* anything; on a well-formed body it writes the fields that fit and reports the
\* first that does not.
WellFormed(body) == body.parses \/ body.fits \/ body = BIllTyped

(***************************************************************************)
(* Errors.  `type` tells the Go type apart: "nil", "Error" (the Go type Error)  *)
(* or "QuotaError" (the Go type QuotaError).                               *)
(***************************************************************************)
NilErr ==
    [type |-> "nil", Code |-> "", Message |-> "", StatusCode |-> 0, Details |-> NoDetails,
     Cause |-> "", Plan |-> "", Current |-> 0, Limit |-> 0, QuotaType |-> ""]

\* The value of the loop's local `err` while executeRequest has not returned yet.
Pending ==
    [type |-> "pending", Code |-> "", Message |-> "", StatusCode |-> 0, Details |-> NoDetails,
     Cause |-> "", Plan |-> "", Current |-> 0, Limit |-> 0, QuotaType |-> ""]

Error(code, message, status, details, cause) ==
    [type |-> "Error", Code |-> code, Message |-> message, StatusCode |-> status,
     Details |-> details, Cause |-> cause, Plan |-> "", Current |-> 0, Limit |-> 0,
     QuotaType |-> ""]

\* A quota error that forgets the status of the response.
QuotaErrorWithoutStatus(message, status, plan, current, limit, quotaType) ==
    [type |-> "QuotaError", Code |-> ErrQuotaExceeded, Message |-> message,
     StatusCode |-> 0, Details |-> NoDetails, Cause |-> "", Plan |-> plan,
     Current |-> current, Limit |-> limit, QuotaType |-> quotaType]

QuotaError(message, status, plan, current, limit, quotaType) ==
    [type |-> "QuotaError", Code |-> ErrQuotaExceeded, Message |-> message,
     StatusCode |-> status, Details |-> NoDetails, Cause |-> "", Plan |-> plan,
     Current |-> current, Limit |-> limit, QuotaType |-> quotaType]

QuotaCodes == {"QUOTA_EXCEEDED", "ASSET_QUOTA_EXCEEDED", "LAYOUT_QUOTA_EXCEEDED"}

\* A classifier that prefers the body's `error` field to its `message` field.
ErrorFieldFirst(body) ==
    IF body.parses
    THEN IF body.error # "" THEN body.error
         ELSE IF body.message # "" THEN body.message
         ELSE ""
    ELSE IF body.raw # "" THEN body.raw ELSE ""

\* Steps 1-2 of the classifier: the message taken from the body ("" when none).
BodyMessage(body) ==
    IF body.parses
    THEN IF body.message # "" THEN body.message
         ELSE IF body.error # "" THEN body.error
         ELSE ""
    ELSE IF body.raw # "" THEN body.raw ELSE ""

\* A classifier that files every unlisted 4xx under bad-request.
BadKindOfStatus(statusCode) ==
    CASE statusCode = StatusUnauthorized -> ErrUnauthorized
      [] statusCode = StatusForbidden -> ErrForbidden
      [] statusCode = StatusNotFound -> ErrNotFound
      [] statusCode = StatusBadRequest -> ErrBadRequest
      [] statusCode = StatusPaymentRequired -> ErrQuotaExceeded
      [] statusCode \in 400..499 -> ErrBadRequest
      [] OTHER -> ErrInternalServer

\* A classifier that leaves the kind unset for the statuses its switch does not list.
KindOfListedStatus(statusCode) ==
    CASE statusCode = StatusUnauthorized -> ErrUnauthorized
      [] statusCode = StatusForbidden -> ErrForbidden
      [] statusCode = StatusNotFound -> ErrNotFound
      [] statusCode = StatusBadRequest -> ErrBadRequest
      [] statusCode = StatusPaymentRequired -> ErrQuotaExceeded
      [] OTHER -> ""

\* The switch on the status code: the kind of a generic error.
KindOfStatus(statusCode) ==
    CASE statusCode = StatusUnauthorized -> ErrUnauthorized
      [] statusCode = StatusForbidden -> ErrForbidden
      [] statusCode = StatusNotFound -> ErrNotFound
      [] statusCode = StatusBadRequest -> ErrBadRequest
      [] statusCode = StatusPaymentRequired -> ErrQuotaExceeded
      [] OTHER -> ErrInternalServer

\* The default message of a kind, used when the body gave none.
DefaultMessage(statusCode) ==
    CASE statusCode = StatusUnauthorized -> "unauthorized"
      [] statusCode = StatusForbidden -> "forbidden"
      [] statusCode = StatusNotFound -> "not found"
      [] statusCode = StatusBadRequest -> "bad request"
      [] statusCode = StatusPaymentRequired -> "quota exceeded"
      [] OTHER -> "server error: " \o ToString(statusCode)

\* A classifier that takes any non-empty code for a quota code.
AnyCodeIsQuota(body) == body.parses /\ body.code # ""

\* parseHTTPError line 215, inside `if err == nil`: the code is one of the quota codes.
HasQuotaCode(body) == body.parses /\ body.code \in QuotaCodes

\* parseHTTPError(statusCode, body)
parseHTTPError(statusCode, body) ==
    LET msg == BodyMessage(body) IN
    IF HasQuotaCode(body)
    THEN LET d == body.details IN
         QuotaError(msg, statusCode,
                    IF d.present /\ d.plan.t = "string" THEN d.plan.s ELSE "",
                    IF d.present /\ d.current.t = "number" THEN TruncTenths(d.current.n) ELSE 0,
                    IF d.present /\ d.limit.t = "number" THEN TruncTenths(d.limit.n) ELSE 0,
                    IF d.present /\ d.type.t = "string" THEN d.type.s ELSE "")
    ELSE Error(KindOfStatus(statusCode),
               IF msg = "" THEN DefaultMessage(statusCode) ELSE msg,
               statusCode,
               IF body.parses THEN body.details ELSE NoDetails,
               "")

(***************************************************************************)
(* The error helpers.  errors.As(err, &e) with e of the Go type Error finds *)
(* an Error at the head of the chain; a QuotaError is not one and has no    *)
(* Unwrap method, and the causes below the transport's errors are errors of *)
(* other packages.                                                          *)
(***************************************************************************)
AsError(err) == err.type = "Error"
AsQuotaError(err) == err.type = "QuotaError"

IsUnauthorized(err) == IF AsError(err) THEN err.Code = ErrUnauthorized ELSE FALSE
IsForbidden(err) == IF AsError(err) THEN err.Code = ErrForbidden ELSE FALSE
IsNotFound(err) == IF AsError(err) THEN err.Code = ErrNotFound ELSE FALSE
IsBadRequest(err) == IF AsError(err) THEN err.Code = ErrBadRequest ELSE FALSE

\* An IsQuotaExceeded that knows the generic error only.
IsQuotaExceededGenericOnly(err) == IF AsError(err) THEN err.Code = ErrQuotaExceeded ELSE FALSE

IsQuotaExceeded(err) ==
    IF AsError(err) THEN err.Code = ErrQuotaExceeded
    ELSE IF AsQuotaError(err) THEN TRUE
    ELSE FALSE

IsNetworkError(err) == IF AsError(err) THEN err.Code = ErrNetworkError ELSE FALSE
IsTimeout(err) == IF AsError(err) THEN err.Code = ErrTimeout ELSE FALSE

GetErrorCode(err) == IF AsError(err) THEN <<err.Code, TRUE>> ELSE <<"", FALSE>>
GetStatusCode(err) == IF AsError(err) THEN <<err.StatusCode, TRUE>> ELSE <<0, FALSE>>

(***************************************************************************)
(* The transport (httpClient) and the retry loop of doRequest.             *)
(***************************************************************************)
Second == 1                \* time.Second, the unit of the model's clock
DefaultMaxRetries == 3

Tokens == {"", "tokA", "tokB"}
Methods == {"GET", "POST", "PUT", "PATCH", "DELETE"}

\* newHTTPClient(client, baseURL): the fields the retry loop and the headers read.
newHTTPClient == [token |-> "", adminToken |-> "", maxRetries |-> DefaultMaxRetries, retryWait |-> Second]

NoHeader == [set |-> FALSE, value |-> ""]

\* The response of the running attempt (resp.StatusCode, respBody) once read.
NoResponse == [status |-> 0, body |-> BEmpty]
Header(v) == [set |-> TRUE, value |-> v]

\* A doRequest invocation that has not started.  prevAuth and prevAdmin keep the
\* headers of the request of the attempt before the running one.
IdleCall ==
    [pc |-> "idle", h |-> "", svc |-> "", method |-> "", path |-> "", body |-> "",
     result |-> FALSE, dest |-> "unset", ctx |-> "", attempt |-> 0, lastErr |-> NilErr,
     ret |-> NilErr, wait |-> 0, waited |-> 0, nAttempts |-> 0, issued |-> 0,
     auth |-> NoHeader, admin |-> NoHeader, prevAuth |-> NoHeader, prevAdmin |-> NoHeader,
     resp |-> NoResponse, err |-> NilErr, cancelledAt |-> ""]

Calls == DOMAIN call
Transports == DOMAIN http

\* A loop that stops one attempt early.
StopsOneEarly(h, attempt) == attempt < http[h].maxRetries

\* doRequest line 75: the loop condition.
LoopContinues(h, attempt) == attempt <= http[h].maxRetries

\* A backoff that doubles: retryWait, 2*retryWait, 4*retryWait, ...
ExponentialDelay(h, attempt) == http[h].retryWait * (2 ^ (attempt - 1))

\* A delay the timer never reaches the end of.
EndlessDelay(h, attempt) == -1

\* doRequest line 84: the delay before attempt `attempt`.
BackoffDelay(h, attempt) == http[h].retryWait * attempt

\* doRequest lines 94-98: the error is an *Error with a 4xx status.
IsClientError(err) == err.type = "Error" /\ err.StatusCode >= 400 /\ err.StatusCode < 500

\* A loop that keeps the first error instead of the last.
KeepFirstError(old, err) == IF old = NilErr THEN err ELSE old

\* doRequest line 100: lastErr = err.
Remember(old, err) == err

\* A loop that goes on after a success.
EndAttemptIgnoringSuccess(r, err) ==
    IF err # NilErr /\ IsClientError(err)
    THEN [r EXCEPT !.pc = "done", !.ret = err, !.err = err]
    ELSE [r EXCEPT !.pc = "loop", !.lastErr = Remember(r.lastErr, err),
                   !.attempt = @ + 1, !.err = err]

\* doRequest lines 88-101: what the loop does with the attempt's result.
EndAttempt(r, err) ==
    IF err = NilErr
    THEN [r EXCEPT !.pc = "done", !.ret = NilErr, !.err = err]
    ELSE IF IsClientError(err)
    THEN [r EXCEPT !.pc = "done", !.ret = err, !.err = err]
    ELSE [r EXCEPT !.pc = "loop", !.lastErr = Remember(r.lastErr, err),
                   !.attempt = @ + 1, !.err = err]

\* httpClient.SetToken
SetToken(h, token) ==
    /\ http[h].token # token
    /\ http' = [http EXCEPT ![h].token = token]
    /\ UNCHANGED <<call, config, classified, batch>>

\* httpClient.SetAdminToken
SetAdminToken(h, token) ==
    /\ http[h].adminToken # token
    /\ http' = [http EXCEPT ![h].adminToken = token]
    /\ UNCHANGED <<call, config, classified, batch>>

\* Entry of doRequest: lastErr is nil, attempt is 0.
StartCall(c, h, svc, method, path, body, result) ==
    /\ call[c].pc = "idle"
    /\ call' = [call EXCEPT ![c] = [@ EXCEPT !.pc = "loop", !.h = h, !.svc = svc,
                                              !.method = method, !.path = path,
                                              !.body = body, !.result = result]]
    /\ UNCHANGED <<http, config, classified, batch>>

Get(c, h, svc, path, result) == StartCall(c, h, svc, "GET", path, "nil", result)
Post(c, h, svc, path, body, result) == StartCall(c, h, svc, "POST", path, body, result)
Put(c, h, svc, path, body, result) == StartCall(c, h, svc, "PUT", path, body, result)
Patch(c, h, svc, path, body, result) == StartCall(c, h, svc, "PATCH", path, body, result)
Delete(c, h, svc, path) == StartCall(c, h, svc, "DELETE", path, "nil", FALSE)

\* A loop whose remembered error is a field of the transport, overwritten by
\* whichever call failed (here: another call's, when it has one).
LastErrOfTransport(c) ==
    LET others == { d \in Calls \ {c} : call[d].lastErr # NilErr } IN
    IF others # {} THEN call[CHOOSE d \in others : TRUE].lastErr ELSE call[c].lastErr

\* doRequest line 73: lastErr is a local variable of the invocation.
LastErr(c) == call[c].lastErr

\* A loop that enters the select before every attempt, attempt 0 included.
LoopHeadAlwaysSelects(c) ==
    /\ call[c].pc = "loop"
    /\ \/ /\ ~LoopContinues(call[c].h, call[c].attempt)
          /\ call' = [call EXCEPT ![c].pc = "done", ![c].ret = LastErr(c)]
       \/ /\ LoopContinues(call[c].h, call[c].attempt)
          /\ call' = [call EXCEPT ![c].pc = "backoff",
                                   ![c].wait = BackoffDelay(call[c].h, call[c].attempt)]
    /\ UNCHANGED <<http, config, classified, batch>>

\* The head of the for loop: leave it, run attempt 0 at once, or enter the select.
LoopHead(c) ==
    /\ call[c].pc = "loop"
    /\ \/ /\ ~LoopContinues(call[c].h, call[c].attempt)
          /\ call' = [call EXCEPT ![c].pc = "done", ![c].ret = LastErr(c)]
       \/ /\ LoopContinues(call[c].h, call[c].attempt)
          /\ call[c].attempt = 0
          /\ call' = [call EXCEPT ![c].pc = "exec"]
       \/ /\ LoopContinues(call[c].h, call[c].attempt)
          /\ call[c].attempt > 0
          /\ call' = [call EXCEPT ![c].pc = "backoff",
                                   ![c].wait = BackoffDelay(call[c].h, call[c].attempt)]
    /\ UNCHANGED <<http, config, classified, batch>>

\* One unit of the backoff timer elapses while the select is blocked.  A select
\* blocked on ctx.Done() is woken by the cancellation with that case chosen, so
\* the timer does not run on once the context is cancelled.
Tick(c) ==
    /\ call[c].pc = "backoff"
    /\ call[c].wait > 0
    /\ call[c].ctx = ""
    /\ call' = [call EXCEPT ![c].wait = @ - 1, ![c].waited = @ + 1]
    /\ UNCHANGED <<http, config, classified, batch>>

\* A timer that starts an attempt although the call has returned (a detached retry).
DetachedTimerFired(c) ==
    /\ call[c].pc \in {"backoff", "done"}
    /\ call[c].wait = 0
    /\ call' = [call EXCEPT ![c].pc = "exec"]
    /\ UNCHANGED <<http, config, classified, batch>>

\* select: case <-time.After(...).  With the timer expired and the context
\* cancelled both cases are ready and select may take either.
TimerFired(c) ==
    /\ call[c].pc = "backoff"
    /\ call[c].wait = 0
    /\ call' = [call EXCEPT ![c].pc = "exec"]
    /\ UNCHANGED <<http, config, classified, batch>>

\* A cancellation reported as the network failure an aborted request gives.
CancelledAsNetworkError(cause) == Error(ErrNetworkError, "request failed", 0, NoDetails, cause)

\* doRequest lines 79-83: the error returned when ctx.Done() wins the select.
CancelledError(cause) == Error(ErrTimeout, "request cancelled", 0, NoDetails, cause)

\* select: case <-ctx.Done()
BackoffCancelled(c) ==
    /\ call[c].pc = "backoff"
    /\ call[c].ctx # ""
    /\ call' = [call EXCEPT ![c].pc = "done", ![c].ret = CancelledError(call[c].ctx)]
    /\ UNCHANGED <<http, config, classified, batch>>

\* The caller cancels the context (or its deadline passes).
Cancel(c, why) ==
    /\ call[c].ctx = ""
    /\ call' = [call EXCEPT ![c].ctx = why, ![c].cancelledAt = call[c].pc]
    /\ UNCHANGED <<http, config, classified, batch>>

\* executeRequest up to http.NewRequestWithContext: join the path, marshal the body.
\* NewRequestWithContext itself cannot fail here: the method is one of the five
\* constants, the URL has just been joined, and the context is not nil.
BuildRequest(c) ==
    /\ call[c].pc = "exec"
    /\ LET r == [call[c] EXCEPT !.nAttempts = @ + 1, !.err = Pending,
                               !.auth = NoHeader, !.admin = NoHeader,
                               !.prevAuth = call[c].auth, !.prevAdmin = call[c].admin,
                               !.resp = NoResponse] IN
       \/ /\ r.path = "bad"
          /\ call' = [call EXCEPT ![c] =
                EndAttempt(r, Error(ErrValidation, "invalid path", 0, NoDetails, "url"))]
       \/ /\ r.path # "bad"
          /\ r.body = "bad"
          /\ call' = [call EXCEPT ![c] =
                EndAttempt(r, Error(ErrValidation, "failed to marshal request body", 0,
                                    NoDetails, "json"))]
       \/ /\ r.path # "bad"
          /\ r.body # "bad"
          /\ call' = [call EXCEPT ![c] = [r EXCEPT !.pc = "hdrToken"]]
    /\ UNCHANGED <<http, config, classified, batch>>

\* executeRequest line 146: if c.token != ""
HeaderTokenTest(c) ==
    /\ call[c].pc = "hdrToken"
    /\ call' = [call EXCEPT ![c].pc = IF http[call[c].h].token # "" THEN "setToken" ELSE "hdrAdmin"]
    /\ UNCHANGED <<http, config, classified, batch>>

\* A header construction that reuses the credential of the call's previous request.
HeaderTokenSetCached(c) ==
    /\ call[c].pc = "setToken"
    /\ call' = [call EXCEPT ![c].pc = "hdrAdmin",
                             ![c].auth = IF call[c].prevAuth.set THEN call[c].prevAuth
                                         ELSE Header(http[call[c].h].token)]
    /\ UNCHANGED <<http, config, classified, batch>>

\* executeRequest line 147: the Authorization header is set from c.token
HeaderTokenSet(c) ==
    /\ call[c].pc = "setToken"
    /\ call' = [call EXCEPT ![c].pc = "hdrAdmin", ![c].auth = Header(http[call[c].h].token)]
    /\ UNCHANGED <<http, config, classified, batch>>

\* A header construction that decides on X-Admin-Token by looking at the bearer token.
HeaderAdminTestOnToken(c) ==
    /\ call[c].pc = "hdrAdmin"
    /\ IF http[call[c].h].token # ""
       THEN call' = [call EXCEPT ![c].pc = "setAdmin"]
       ELSE call' = [call EXCEPT ![c].pc = "inflight", ![c].issued = @ + 1]
    /\ UNCHANGED <<http, config, classified, batch>>

\* executeRequest line 149: if c.adminToken != ""; without it the request goes to client.Do
HeaderAdminTest(c) ==
    /\ call[c].pc = "hdrAdmin"
    /\ IF http[call[c].h].adminToken # ""
       THEN call' = [call EXCEPT ![c].pc = "setAdmin"]
       ELSE call' = [call EXCEPT ![c].pc = "inflight", ![c].issued = @ + 1]
    /\ UNCHANGED <<http, config, classified, batch>>

\* executeRequest lines 150-154: X-Admin-Token is set, then client.Do(req)
HeaderAdminSet(c) ==
    /\ call[c].pc = "setAdmin"
    /\ call' = [call EXCEPT ![c].pc = "inflight", ![c].issued = @ + 1,
                             ![c].admin = Header(http[call[c].h].adminToken)]
    /\ UNCHANGED <<http, config, classified, batch>>

\* c.token and c.adminToken are plain string fields written by the setters and read
\* by executeRequest with no synchronization.  A Go string is a pointer and a
\* length; a read that overlaps a write may pair the pointer of one value with the
\* length of the other.
TornString == "<torn>"

\* What a read of a string field can give while a write of `new` over `old` is
\* under way.  Pointer and length of different values make a third string when
\* both values are non-empty and differ in length.
RacyReads(old, new) ==
    {old, new} \cup (IF old # "" /\ new # "" /\ Len(old) # Len(new) THEN {TornString} ELSE {})

\* executeRequest line 147 overlapping SetToken(token): the header gets one of the
\* values such a read can give, or the read faults (nil pointer with a non-zero
\* length, when one of the two values is the empty string) and the process panics.
RacingTokenRead(c, token) ==
    /\ call[c].pc = "setToken"
    /\ http[call[c].h].token # token
    /\ http' = [http EXCEPT ![call[c].h].token = token]
    /\ \/ \E v \in RacyReads(http[call[c].h].token, token) :
            call' = [call EXCEPT ![c].pc = "hdrAdmin", ![c].auth = Header(v)]
       \/ /\ "" \in {http[call[c].h].token, token}
          /\ call' = [call EXCEPT ![c].pc = "panic"]
    /\ UNCHANGED <<config, classified, batch>>

\* executeRequest line 150 overlapping SetAdminToken(token).
RacingAdminRead(c, token) ==
    /\ call[c].pc = "setAdmin"
    /\ http[call[c].h].adminToken # token
    /\ http' = [http EXCEPT ![call[c].h].adminToken = token]
    /\ \/ \E v \in RacyReads(http[call[c].h].adminToken, token) :
            call' = [call EXCEPT ![c].pc = "inflight", ![c].issued = @ + 1,
                                     ![c].admin = Header(v)]
       \/ /\ "" \in {http[call[c].h].adminToken, token}
          /\ call' = [call EXCEPT ![c].pc = "panic"]
    /\ UNCHANGED <<config, classified, batch>>

\* The cause of a failure of the HTTP engine: the context's error once it is cancelled.
EngineCause(r, other) == IF r.ctx # "" THEN r.ctx ELSE other

\* executeRequest lines 154-161: client.Do fails (no connection, engine timeout, cancelled context)
DoFails(c) ==
    /\ call[c].pc = "inflight"
    /\ call' = [call EXCEPT ![c] =
          EndAttempt(call[c], Error(ErrNetworkError, "request failed", 0, NoDetails,
                                    EngineCause(call[c], "connection refused")))]
    /\ UNCHANGED <<http, config, classified, batch>>

\* executeRequest lines 165-172: the response arrives but reading its body fails
ReadFails(c) ==
    /\ call[c].pc = "inflight"
    /\ call' = [call EXCEPT ![c] =
          EndAttempt(call[c], Error(ErrNetworkError, "failed to read response body", 0,
                                    NoDetails, EngineCause(call[c], "unexpected EOF")))]
    /\ UNCHANGED <<http, config, classified, batch>>

\* An attempt that reports an undecodable body as a client error with status 400.
ResponseResultDecodeAsClientError(r, status, body) ==
    IF status >= 400 THEN parseHTTPError(status, body)
    ELSE IF r.result /\ body.raw # "" /\ ~body.fits
    THEN Error(ErrBadRequest, "failed to parse response", 400, NoDetails, "json")
    ELSE NilErr

\* executeRequest lines 175-190 on a response read in full.
ResponseResult(r, status, body) ==
    IF status >= 400 THEN parseHTTPError(status, body)
    ELSE IF r.result /\ body.raw # "" /\ ~body.fits
    THEN Error(ErrInternalServer, "failed to parse response", 0, NoDetails, "json")
    ELSE NilErr

\* executeRequest lines 180-188: the destination after json.Unmarshal, which runs
\* only for a non-nil destination and a non-empty body.  A body that is not JSON
\* leaves the destination alone; one that is JSON but does not fit is written in part.
DestAfter(r, status, body) ==
    IF status < 400 /\ r.result /\ body.raw # ""
    THEN IF body.fits THEN body.raw
         ELSE IF WellFormed(body) THEN "partial"
         ELSE r.dest
    ELSE r.dest

\* The server's response is received and read while the context is live (with a
\* cancelled context client.Do or the read of the body fails: DoFails, ReadFails).
Respond(c, status, body) ==
    /\ call[c].pc = "inflight"
    /\ call[c].ctx = ""
    /\ call' = [call EXCEPT ![c] =
          EndAttempt([call[c] EXCEPT !.dest = DestAfter(call[c], status, body),
                                     !.resp = [status |-> status, body |-> body]],
                     ResponseResult(call[c], status, body))]
    /\ UNCHANGED <<http, config, classified, batch>>

(***************************************************************************)
(* The transport on its own: one httpClient with any retry policy and any  *)
(* of the four credential combinations, one call, the caller's cancellation.*)
(***************************************************************************)
Statuses == {200, 400, 402, 500, 503}
\* The statuses of the three other kinds the classifier names; the server sends
\* them with an empty body.
OtherClientStatuses == {401, 403, 404}
Bodies == {BEmpty, BText, BObject, BMismatch, BQuota}
CtxErrors == {"context canceled"}
Paths == {"ok", "bad"}
ReqBodies == {"nil", "ok", "bad"}

NoClient ==
    [built |-> FALSE, rotated |-> FALSE, Token |-> "", AdminSecret |-> "",
     MaxRetries |-> 0, RetryWait |-> 0]
NotClassified == [ran |-> FALSE, status |-> 0, body |-> BEmpty, err |-> NilErr]
\* No SendMultiple is running.
NoBatch == [pc |-> "idle", data |-> <<>>, i |-> 0, ret |-> NilErr]

Init ==
    /\ \E n \in -1..MaxRetriesBound, w \in 0..MaxWaitBound, t \in {"", "tokA"}, a \in {"", "tokB"} :
          http = [h \in {"direct"} |->
                    [token |-> t, adminToken |-> a, maxRetries |-> n, retryWait |-> w]]
    /\ call = [c \in {1} |-> IdleCall]
    /\ config = NoClient
    /\ classified = NotClassified
    /\ batch = NoBatch

\* One step of a call; the server answers with a status of S and a body of B.
CallStep(c, S, B) ==
    \/ LoopHead(c)
    \/ Tick(c)
    \/ TimerFired(c)
    \/ BackoffCancelled(c)
    \/ BuildRequest(c)
    \/ HeaderTokenTest(c)
    \/ HeaderTokenSet(c)
    \/ HeaderAdminTest(c)
    \/ HeaderAdminSet(c)
    \/ DoFails(c)
    \/ ReadFails(c)
    \/ \E status \in S, body \in B : Respond(c, status, body)

\* The arguments a verb is called with.  A bad path ends the attempt before the
\* body is looked at, and an unserializable body before the destination is, so
\* those arguments are not varied further.
Shapes ==
    { <<path, body, result>> \in Paths \X ReqBodies \X BOOLEAN :
        /\ path = "bad" => (body = "ok" /\ ~result)
        /\ body = "bad" => ~result }

\* Put and Patch are Post with another method string (http.go:52-64): the
\* arguments are varied through Post, and these two verbs send a good request.
GoodShapes == { s \in Shapes : s[1] = "ok" /\ s[2] = "ok" }

Next ==
    \/ \E c \in Calls, h \in Transports, path \in Paths, result \in BOOLEAN :
          (path = "bad" => ~result) /\ Get(c, h, "", path, result)
    \/ \E c \in Calls, h \in Transports, s \in Shapes : Post(c, h, "", s[1], s[2], s[3])
    \/ \E c \in Calls, h \in Transports, s \in GoodShapes : Put(c, h, "", s[1], s[2], s[3])
    \/ \E c \in Calls, h \in Transports, s \in GoodShapes : Patch(c, h, "", s[1], s[2], s[3])
    \/ \E c \in Calls, h \in Transports, path \in Paths : Delete(c, h, "", path)
    \/ \E c \in Calls : CallStep(c, Statuses, Bodies)
    \/ \E c \in Calls, status \in OtherClientStatuses : Respond(c, status, BEmpty)
    \/ \E c \in Calls, why \in CtxErrors : Cancel(c, why)

Spec == Init /\ [][Next]_vars

(***************************************************************************)
(* The Client: New builds one transport per service endpoint and hands     *)
(* them to the nine service clients; the Client's setters update them.     *)
(***************************************************************************)
Services ==
    {"Auth", "Sensors", "UI", "Camera", "Traffic", "Popup", "Groups", "Workflow", "Backoffice"}
TransportNames == {"auth", "sensor", "ui", "workflow", "backoffice"}
AdminSecrets == {"", "s3cret"}

\* New, "Initialize service clients": the transport each service client holds.
ServiceTransport(svc) ==
    CASE svc = "Auth" -> "auth"
      [] svc = "Sensors" -> "sensor"
      [] svc \in {"UI", "Camera", "Traffic", "Popup", "Groups"} -> "ui"
      [] svc = "Workflow" -> "workflow"
      [] svc = "Backoffice" -> "backoffice"

\* defaultConfig / configForEnvironment: the fields the transports could use.
defaultConfig ==
    [built |-> FALSE, rotated |-> FALSE, Token |-> "", AdminSecret |-> "",
     MaxRetries |-> DefaultMaxRetries, RetryWait |-> Second]

WithToken(cfg, token) == [cfg EXCEPT !.Token = token]
WithAdminSecret(cfg, secret) == [cfg EXCEPT !.AdminSecret = secret]
WithRetry(cfg, maxRetries, retryWait) ==
    [cfg EXCEPT !.MaxRetries = maxRetries, !.RetryWait = retryWait]

\* New: the five transports, each from newHTTPClient followed by one setter.
NewTransports(cfg) ==
    [h \in TransportNames |->
        IF h = "backoffice"
        THEN [newHTTPClient EXCEPT !.adminToken = cfg.AdminSecret]
        ELSE [newHTTPClient EXCEPT !.token = cfg.Token]]

\* A Client.SetToken that misses the workflow transport.
SetTokenMissesWorkflow == {"auth", "sensor", "ui"}

\* Client.SetToken: the transports reached through the eight service clients it names.
SetTokenTargets ==
    { ServiceTransport(svc) :
        svc \in {"Auth", "Sensors", "UI", "Camera", "Traffic", "Popup", "Groups", "Workflow"} }

\* Client.SetToken
ClientSetToken(token) ==
    /\ config.built
    /\ config.Token # token
    /\ config' = [config EXCEPT !.Token = token, !.rotated = TRUE]
    /\ http' = [h \in Transports |->
                  IF h \in SetTokenTargets THEN [http[h] EXCEPT !.token = token] ELSE http[h]]
    /\ UNCHANGED <<call, classified, batch>>

\* Client.SetAdminSecret
SetAdminSecret(secret) ==
    /\ config.built
    /\ config.AdminSecret # secret
    /\ config' = [config EXCEPT !.AdminSecret = secret]
    /\ http' = [http EXCEPT !["backoffice"].adminToken = secret]
    /\ UNCHANGED <<call, classified, batch>>

ClientStatuses == {200, 500}
ClientBodies == {BEmpty}

\* The WithRetry options tried: the defaults, no retry at all, one slower retry.
RetryOptions == {<<DefaultMaxRetries, Second>>, <<0, 0>>, <<1, 2 * Second>>}

\* The state New(opts...) returns, for the options WithToken, WithAdminSecret and
\* WithRetry drawn from small sets (the defaults are among them).  The calls of
\* this specification run under a context that is never cancelled.
ClientInit ==
    /\ \E t \in Tokens, s \in AdminSecrets, o \in RetryOptions :
          LET cfg == WithRetry(WithAdminSecret(WithToken(defaultConfig, t), s), o[1], o[2]) IN
          /\ config = [cfg EXCEPT !.built = TRUE]
          /\ http = NewTransports(cfg)
    /\ call = [c \in {1} |-> IdleCall]
    /\ classified = NotClassified
    /\ batch = NoBatch

ClientNext ==
    \/ \E t \in Tokens : ClientSetToken(t)
    \/ \E s \in AdminSecrets : SetAdminSecret(s)
    \/ \E c \in Calls, svc \in Services : Get(c, ServiceTransport(svc), svc, "ok", FALSE)
    \/ \E c \in Calls : CallStep(c, ClientStatuses, ClientBodies)

ClientSpec == ClientInit /\ [][ClientNext]_vars

(***************************************************************************)
(* Credential updates racing with a call: one transport as newHTTPClient   *)
(* and the setters leave it, one call, and SetToken / SetAdminToken        *)
(* running at any moment of it, the reads of the header construction       *)
(* included.  The context of the call is never cancelled.                  *)
(***************************************************************************)
CredentialTokens == {"", "tokA", "longer-token"}
CredentialStatuses == {200, 500}
CredentialBodies == {BEmpty}

CredentialInit ==
    /\ \E t \in {"", "tokA"}, a \in {"", "tokA"} :
          http = [h \in {"direct"} |-> [newHTTPClient EXCEPT !.token = t, !.adminToken = a]]
    /\ call = [c \in {1} |-> IdleCall]
    /\ config = NoClient
    /\ classified = NotClassified
    /\ batch = NoBatch

CredentialNext ==
    \/ \E c \in Calls, h \in Transports : Get(c, h, "", "ok", FALSE)
    \/ \E c \in Calls : CallStep(c, CredentialStatuses, CredentialBodies)
    \/ \E h \in Transports, t \in CredentialTokens : SetToken(h, t)
    \/ \E h \in Transports, s \in CredentialTokens : SetAdminToken(h, s)
    \/ \E c \in Calls, t \in CredentialTokens : RacingTokenRead(c, t)
    \/ \E c \in Calls, s \in CredentialTokens : RacingAdminRead(c, s)

CredentialSpec == CredentialInit /\ [][CredentialNext]_vars

(***************************************************************************)
(* Two calls running concurrently on one transport whose credentials are   *)
(* not updated; each call has its own context.                             *)
(***************************************************************************)
ConcurrentStatuses == {200, 404, 500}
ConcurrentBodies == {BEmpty}

ConcurrentInit ==
    /\ \E n \in 1..MaxConcurrentRetries :
          http = [h \in {"direct"} |->
                    [newHTTPClient EXCEPT !.token = "tokA", !.maxRetries = n]]
    /\ call = [c \in {1, 2} |-> IdleCall]
    /\ config = NoClient
    /\ classified = NotClassified
    /\ batch = NoBatch

ConcurrentNext ==
    \/ \E c \in Calls, h \in Transports : Get(c, h, "", "ok", FALSE)
    \/ \E c \in Calls : CallStep(c, ConcurrentStatuses, ConcurrentBodies)
    \/ \E c \in Calls, why \in CtxErrors : Cancel(c, why)

ConcurrentSpec == ConcurrentInit /\ [][ConcurrentNext]_vars

(***************************************************************************)
(* One call under a fair scheduler: the goroutine of the call is not       *)
(* starved, the HTTP engine ends every request (client.Do and the read of  *)
(* the body return) and every timer of time.After expires.  The caller may *)
(* cancel the context or not.                                              *)
(***************************************************************************)
FairStatuses == {200, 404, 500}
FairBodies == {BEmpty}

FairInit ==
    /\ \E n \in -1..MaxRetriesBound, w \in 0..MaxWaitBound :
          http = [h \in {"direct"} |->
                    [newHTTPClient EXCEPT !.maxRetries = n, !.retryWait = w]]
    /\ call = [c \in {1} |-> IdleCall]
    /\ config = NoClient
    /\ classified = NotClassified
    /\ batch = NoBatch

FairCallStep == \E c \in Calls : CallStep(c, FairStatuses, FairBodies)

FairNext ==
    \/ \E c \in Calls, h \in Transports, result \in BOOLEAN : Get(c, h, "", "ok", result)
    \/ \E c \in Calls, h \in Transports : Post(c, h, "", "ok", "bad", FALSE)
    \/ FairCallStep
    \/ \E c \in Calls, why \in CtxErrors : Cancel(c, why)

FairSpec == FairInit /\ [][FairNext]_vars /\ WF_vars(FairCallStep)

(***************************************************************************)
(* SensorsClient.SendMultiple on the sensor transport New builds: a range  *)
(* loop over the slice that calls Send, one doRequest invocation per item, *)
(* with the one context of the caller.  Call c is the Send of item c.      *)
(***************************************************************************)
\* A *SensorData json.Marshal encodes, and one whose Extra holds a value it cannot.
SensorItems == {"ok", "bad"}
SendStatuses == {200, 404, 500}
SendBodies == {BEmpty}

\* The slices SendMultiple is called with.
RECURSIVE Slices(_)
Slices(n) ==
    IF n = 0 THEN {<<>>}
    ELSE Slices(n - 1) \cup { Append(s, d) : s \in { t \in Slices(n - 1) : Len(t) = n - 1 },
                                             d \in SensorItems }

SendInit ==
    /\ http = [h \in {"sensor"} |-> [newHTTPClient EXCEPT !.token = "tokA"]]
    /\ call = [c \in 1..MaxItems |-> IdleCall]
    /\ config = NoClient
    /\ classified = NotClassified
    /\ batch = NoBatch

\* SendMultiple is entered: the range loop stands before the first item.
SendMultiple(data) ==
    /\ batch.pc = "idle"
    /\ batch' = [pc |-> "range", data |-> data, i |-> 1, ret |-> NilErr]
    /\ UNCHANGED <<http, call, config, classified>>

\* SensorsClient.Send: a POST of the item to /sensors with no destination.
Send(c, d) == Post(c, ServiceTransport("Sensors"), "Sensors", "ok", d, FALSE)

\* The body of the range loop calls Send with the item the loop stands at.
RangeSend ==
    /\ batch.pc = "range"
    /\ batch.i <= Len(batch.data)
    /\ Send(batch.i, batch.data[batch.i])

\* A loop that goes on to the next item whatever Send returned and returns the
\* last error.
SendReturnedGoesOn ==
    /\ batch.pc = "range"
    /\ batch.i <= Len(batch.data)
    /\ call[batch.i].pc = "done"
    /\ batch' = [batch EXCEPT !.i = @ + 1,
                              !.ret = IF call[batch.i].ret # NilErr THEN call[batch.i].ret ELSE @]
    /\ UNCHANGED <<http, call, config, classified>>

\* Send has returned: an error ends SendMultiple, nil moves the loop on.
SendReturned ==
    /\ batch.pc = "range"
    /\ batch.i <= Len(batch.data)
    /\ call[batch.i].pc = "done"
    /\ batch' = IF call[batch.i].ret # NilErr
                THEN [batch EXCEPT !.pc = "done", !.ret = call[batch.i].ret]
                ELSE [batch EXCEPT !.i = @ + 1]
    /\ UNCHANGED <<http, call, config, classified>>

\* The slice is exhausted: return nil.
RangeEnd ==
    /\ batch.pc = "range"
    /\ batch.i > Len(batch.data)
    /\ batch' = [batch EXCEPT !.pc = "done"]
    /\ UNCHANGED <<http, call, config, classified>>

\* The caller cancels the context SendMultiple hands to every Send: the running
\* call and the calls not yet made see it, the calls that have returned do not.
CancelContext(why) ==
    /\ \A c \in Calls : call[c].ctx = ""
    /\ call' = [c \in Calls |->
                  IF call[c].pc = "done" THEN call[c]
                  ELSE [call[c] EXCEPT !.ctx = why, !.cancelledAt = call[c].pc]]
    /\ UNCHANGED <<http, config, classified, batch>>

SendNext ==
    \/ \E data \in Slices(MaxItems) : SendMultiple(data)
    \/ RangeSend
    \/ SendReturned
    \/ RangeEnd
    \/ \E c \in Calls : CallStep(c, SendStatuses, SendBodies)
    \/ \E why \in CtxErrors : CancelContext(why)

SendSpec == SendInit /\ [][SendNext]_vars

(***************************************************************************)
(* The classifier on its own: parseHTTPError applied to a status and a     *)
(* body drawn from bounded sets.                                           *)
(***************************************************************************)
ClassifierStatuses == {400, 401, 402, 403, 404, 408, 409, 422, 429, 500, 502, 503}

ClassifierDetails ==
    { NoDetails,
      DetailsOf(JStr("free"), JNum(50), JNum(50), JStr("assets")),
      DetailsOf(JStr("pro"), JNum(127), JNum(-15), JStr("layouts")),
      DetailsOf(JNum(10), JStr("5"), Absent, Absent) }

ClassifierBodies ==
    { BEmpty, BText, BIllTyped }
    \cup { Body("{json}", TRUE, TRUE, m, e, code, d) :
             m \in {"", "denied"}, e \in {"", "boom"},
             code \in QuotaCodes \cup {"", "RATE_LIMITED"}, d \in ClassifierDetails }

ClassifierInit ==
    /\ \E status \in ClassifierStatuses, body \in ClassifierBodies :
          classified = [ran |-> FALSE, status |-> status, body |-> body, err |-> NilErr]
    /\ http = [h \in {"direct"} |-> newHTTPClient]
    /\ call = [c \in {1} |-> IdleCall]
    /\ config = NoClient
    /\ batch = NoBatch

Classify ==
    /\ ~classified.ran
    /\ classified' = [classified EXCEPT !.ran = TRUE,
                                         !.err = parseHTTPError(classified.status, classified.body)]
    /\ UNCHANGED <<http, call, config, batch>>

ClassifierNext == Classify

ClassifierSpec == ClassifierInit /\ [][ClassifierNext]_vars

(***************************************************************************)
(* Properties of the retry loop.                                           *)
(***************************************************************************)
IsClientStatus(e) == e.StatusCode >= 400 /\ e.StatusCode <= 499
IsServerOrNetworkFailure(e) ==
    \/ e.StatusCode >= 500 /\ e.StatusCode <= 599
    \/ e.type = "Error" /\ e.Code = ErrNetworkError

\* C1: an attempt that received a 4xx response, whatever its body (quota codes
\* included), ends the call at once with that attempt's classified error.
C1_ClientErrorNeverRetried ==
    \A c \in Calls :
        IsClientStatus(call[c].err) => (call[c].pc = "done" /\ call[c].ret = call[c].err)

\* C2: an attempt that fails with a validation-kind error (bad body, bad path) ends
\* the call after exactly one attempt, without backoff: the error is the result.
C2_ValidationNeverRetried ==
    \A c \in Calls :
        (call[c].err.type = "Error" /\ call[c].err.Code = ErrValidation)
            => /\ call[c].pc = "done"
               /\ call[c].ret = call[c].err
               /\ call[c].nAttempts = 1
               /\ call[c].waited = 0

\* C3: a call whose context was cancelled while an attempt was in flight or while
\* it waited in backoff returns a timeout-kind error.
C3_CancelledCallReturnsTimeout ==
    \A c \in Calls :
        (call[c].pc = "done" /\ call[c].cancelledAt \in {"inflight", "backoff"})
            => (call[c].ret.type = "Error" /\ call[c].ret.Code = ErrTimeout)

\* C5: with maxRetries = n >= 0 and a context that is never cancelled, a call never
\* makes more than n+1 attempts, and a call that has ended on an attempt that got a
\* 5xx response or failed at the network level (as it must when every attempt
\* does) has made exactly n+1 attempts and returns an error.
C5_ServerFailuresExhaustAttempts ==
    \A c \in Calls :
        (call[c].pc # "idle" /\ http[call[c].h].maxRetries >= 0 /\ call[c].ctx = "")
            => /\ call[c].nAttempts <= http[call[c].h].maxRetries + 1
               /\ (call[c].pc = "done" /\ IsServerOrNetworkFailure(call[c].err))
                    => /\ call[c].nAttempts = http[call[c].h].maxRetries + 1
                       /\ call[c].ret # NilErr

C5_Witness ==
    \E c \in Calls :
        /\ call[c].pc = "done" /\ call[c].ctx = ""
        /\ http[call[c].h].maxRetries = DefaultMaxRetries
        /\ call[c].nAttempts = 4
        /\ call[c].ret.StatusCode = 500

\* C6: once the context is cancelled while the call waits in backoff with time
\* left on the timer, the only thing the call does is return the timeout-kind
\* error caused by the context's error: no attempt runs, no more time is waited,
\* and a call that has returned does nothing further.
C6_CancelInBackoffReturnsTimeout ==
    [][\A c \in Calls :
        /\ (call[c].pc = "backoff" /\ call[c].ctx # "" /\ call[c].wait > 0)
             => \/ call'[c] = call[c]
                \/ /\ call'[c].pc = "done"
                   /\ call'[c].ret = Error(ErrTimeout, "request cancelled", 0, NoDetails,
                                           call[c].ctx)
                   /\ call'[c].nAttempts = call[c].nAttempts
                   /\ call'[c].issued = call[c].issued
                   /\ call'[c].waited = call[c].waited
        /\ call[c].pc = "done"
             => /\ call'[c].pc = "done"
                /\ call'[c].ret = call[c].ret
                /\ call'[c].nAttempts = call[c].nAttempts
                /\ call'[c].waited = call[c].waited]_vars

C6_Witness ==
    \E c \in Calls :
        /\ call[c].pc = "done"
        /\ call[c].cancelledAt = "backoff"
        /\ call[c].ret = Error(ErrTimeout, "request cancelled", 0, NoDetails, "context canceled")
        /\ call[c].attempt = 2
        /\ call[c].nAttempts = 2
        /\ call[c].waited < 3 * http[call[c].h].retryWait

\* C7: when the latest attempt of a call has succeeded, the call has returned nil
\* and is not waiting or attempting again, whatever the earlier attempts gave.
C7_SuccessEndsCall ==
    \A c \in Calls :
        (call[c].nAttempts > 0 /\ call[c].err = NilErr)
            => (call[c].pc = "done" /\ call[c].ret = NilErr)

C7_Witness ==
    \E c \in Calls :
        /\ call[c].pc = "done" /\ call[c].err = NilErr /\ call[c].ret = NilErr
        /\ call[c].nAttempts = 3
        /\ call[c].lastErr.StatusCode = 503

\* C8: when all maxRetries+1 attempts failed with retryable errors, the error
\* returned is the one of the final attempt.
C8_LastErrorReturned ==
    \A c \in Calls :
        ( /\ call[c].pc = "done"
          /\ http[call[c].h].maxRetries >= 0
          /\ call[c].nAttempts = http[call[c].h].maxRetries + 1
          /\ call[c].err \notin {NilErr, Pending}
          /\ ~(call[c].err.type = "Error" /\ IsClientStatus(call[c].err)) )
            => call[c].ret = call[c].err

C8_Witness ==
    \E c \in Calls :
        /\ call[c].pc = "done"
        /\ http[call[c].h].maxRetries = 2
        /\ call[c].nAttempts = 3
        /\ call[c].err.StatusCode = 503
        /\ call[c].ret = call[c].err

(***************************************************************************)
(* Properties of the Client.                                               *)
(***************************************************************************)
\* The bearer credential of the request an attempt has built ("" when none).
Bearer(r) == IF r.auth.set THEN r.auth.value ELSE ""

\* The step of an attempt that settles its Authorization header.
SettlesBearer(c) ==
    /\ call[c].pc \in {"hdrToken", "setToken"}
    /\ call'[c].pc \in {"hdrAdmin"}

\* C4: the transports of a client built with WithRetry(n, w) make at most n+1
\* attempts per call and wait w*a before attempt a.
C4_WithRetryGovernsTransports ==
    \A c \in Calls :
        (config.built /\ call[c].pc # "idle")
            => /\ call[c].nAttempts <= config.MaxRetries + 1
               /\ call[c].pc = "backoff"
                    => call[c].wait <= config.RetryWait * call[c].attempt

ResolvesToQuota(body) == body.parses /\ body.code \in QuotaCodes

\* C10: for a status >= 400 and a body that does not resolve to the specialized
\* quota error, the classifier returns a generic error of kind unauthorized for
\* 401, forbidden for 403, not-found for 404, bad-request for 400, quota-exceeded
\* for 402 and internal-server for every other status.
C10_StatusDecidesKind ==
    (classified.ran /\ ~ResolvesToQuota(classified.body))
        => /\ classified.err.type = "Error"
           /\ classified.status = 401 => classified.err.Code = "unauthorized"
           /\ classified.status = 403 => classified.err.Code = "forbidden"
           /\ classified.status = 404 => classified.err.Code = "not_found"
           /\ classified.status = 400 => classified.err.Code = "bad_request"
           /\ classified.status = 402 => classified.err.Code = "quota_exceeded"
           /\ classified.status \notin {400, 401, 402, 403, 404}
                => classified.err.Code = "internal_server"

C10_Witness ==
    /\ classified.ran
    /\ classified.status = 429
    /\ classified.body.code = "RATE_LIMITED"
    /\ classified.err.type = "Error"
    /\ classified.err.Code = "internal_server"

KindDefaultText(status) ==
    CASE status = 401 -> "unauthorized"
      [] status = 403 -> "forbidden"
      [] status = 404 -> "not found"
      [] status = 400 -> "bad request"
      [] status = 402 -> "quota exceeded"
      [] OTHER -> "server error: " \o ToString(status)

\* C12: the message of a generic classified error is the body's `message` if
\* non-empty, else its `error` if non-empty, else the raw text of a non-empty body
\* that does not parse, else the default message of the kind.
C12_MessagePrecedence ==
    (classified.ran /\ classified.err.type = "Error") =>
        LET b == classified.body IN
        classified.err.Message =
            (IF b.parses /\ b.message # "" THEN b.message
             ELSE IF b.parses /\ b.error # "" THEN b.error
             ELSE IF ~b.parses /\ b.raw # "" THEN b.raw
             ELSE KindDefaultText(classified.status))

\* A body with both fields has been classified: `message` won over `error`.
C12_Witness ==
    /\ classified.ran
    /\ classified.err.type = "Error"
    /\ classified.body.message = "denied" /\ classified.body.error = "boom"
    /\ classified.err.Message = "denied"

(***************************************************************************)
(* Properties of one attempt: headers, destination, errors.                *)
(***************************************************************************)
\* C13: the request of every attempt carries "Authorization: Bearer <token>" exactly
\* when the transport's token is non-empty and "X-Admin-Token: <adminToken>" exactly
\* when its admin token is non-empty, each decided by its own field.
C13_HeadersFollowCredentials ==
    \A c \in Calls :
        call[c].pc = "inflight" =>
            LET t == http[call[c].h] IN
            /\ call[c].auth = (IF t.token # "" THEN [set |-> TRUE, value |-> t.token]
                                ELSE [set |-> FALSE, value |-> ""])
            /\ call[c].admin = (IF t.adminToken # "" THEN [set |-> TRUE, value |-> t.adminToken]
                                 ELSE [set |-> FALSE, value |-> ""])

\* A retried attempt is in flight with the admin header and without the bearer header.
C13_Witness ==
    \E c \in Calls :
        /\ call[c].pc = "inflight"
        /\ call[c].nAttempts >= 2
        /\ ~call[c].auth.set
        /\ call[c].admin = [set |-> TRUE, value |-> "tokB"]

C16_StatusAndCausePreserved ==
    \A c \in Calls :
        LET e == call[c].err
            r == call[c].ret IN
        /\ e.type \in {"Error", "QuotaError"} =>
              IF call[c].resp.status >= 400
              THEN e.StatusCode = call[c].resp.status
              ELSE e.type = "Error" /\ e.StatusCode = 0 /\ e.Cause # ""
        /\ r.type # "nil" =>
              \/ r = e
              \/ /\ r.type = "Error" /\ r.Code = ErrTimeout
                 /\ r.StatusCode = 0 /\ r.Cause = call[c].ctx /\ r.Cause # ""

\* A call has returned the quota error of a 402 response.
C16_Witness ==
    \E c \in Calls :
        /\ call[c].pc = "done"
        /\ call[c].ret.type = "QuotaError"
        /\ call[c].resp.status = 402
        /\ call[c].ret.StatusCode = 402

(***************************************************************************)
(* Properties of the error helpers on the errors the transport returns.    *)
(***************************************************************************)
\* C17: for every error a call returns that comes from a response with status s,
\* GetStatusCode gives (s, true) and GetErrorCode gives (k, true) with k the kind of
\* the error, the quota error included.
C17_HelpersReadStatusAndKind ==
    \A c \in Calls :
        (call[c].pc = "done" /\ call[c].ret.type # "nil" /\ call[c].ret = call[c].err
           /\ call[c].resp.status >= 400)
            => /\ GetStatusCode(call[c].ret) = <<call[c].resp.status, TRUE>>
               /\ GetErrorCode(call[c].ret) = <<call[c].ret.Code, TRUE>>

\* The predicates of the error helpers that hold of an error.
TruePredicates(err) ==
    { p \in {"IsUnauthorized", "IsForbidden", "IsNotFound", "IsBadRequest",
              "IsQuotaExceeded", "IsNetworkError", "IsTimeout"} :
        CASE p = "IsUnauthorized" -> IsUnauthorized(err)
          [] p = "IsForbidden" -> IsForbidden(err)
          [] p = "IsNotFound" -> IsNotFound(err)
          [] p = "IsBadRequest" -> IsBadRequest(err)
          [] p = "IsQuotaExceeded" -> IsQuotaExceeded(err)
          [] p = "IsNetworkError" -> IsNetworkError(err)
          [] p = "IsTimeout" -> IsTimeout(err) }

\* C18: for every error a call returns, IsQuotaExceeded holds exactly when the error
\* is a generic error of kind quota_exceeded or a quota error, and at most one of
\* the seven Is* predicates holds.
C18_PredicatesExclusive ==
    \A c \in Calls :
        (call[c].pc = "done" /\ call[c].ret.type # "nil") =>
            LET r == call[c].ret IN
            /\ IsQuotaExceeded(r) <=>
                  \/ r.type = "Error" /\ r.Code = "quota_exceeded"
                  \/ r.type = "QuotaError"
            /\ Cardinality(TruePredicates(r)) <= 1

\* A call has returned a quota error and IsQuotaExceeded is the one predicate true of it.
C18_Witness ==
    \E c \in Calls :
        /\ call[c].pc = "done"
        /\ call[c].ret.type = "QuotaError"
        /\ TruePredicates(call[c].ret) = {"IsQuotaExceeded"}

(***************************************************************************)
(* Properties of calls that run concurrently with setters or other calls.  *)
(***************************************************************************)
\* The attempt of call c has its bearer header settled and has not ended.
BearerSettled(r) == r.pc \in {"hdrAdmin", "setAdmin", "inflight"}

OwnResult(r, maxRetries) ==
    IF r.err.type = "nil" THEN r.err
    ELSE IF r.err.StatusCode \in 400..499 /\ r.err.type = "Error" THEN r.err
    ELSE IF r.attempt > maxRetries THEN r.err
    ELSE [r.err EXCEPT !.type = "Error", !.Code = "timeout", !.Message = "request cancelled",
                       !.StatusCode = 0, !.Cause = r.ctx]

\* The attempts a call has made as its own record dictates: one per failed attempt
\* counted by its loop variable, and the running or successful one.
OwnAttempts(r) ==
    IF r.pc \in {"idle", "loop", "backoff", "exec"} THEN r.attempt
    ELSE IF r.pc = "done" /\ r.err.type # "nil"
              /\ ~(r.err.type = "Error" /\ r.err.StatusCode \in 400..499)
    THEN r.attempt
    ELSE r.attempt + 1

\* C20: of two calls running concurrently on one transport with no credential
\* update, each has the number of attempts and the result that its own attempts'
\* outcomes and its own context dictate, and a step of one call changes nothing
\* of the other call or of the transport.
C20_ConcurrentCallsIndependent ==
    [][\A c \in Calls :
          /\ call'[c].nAttempts = OwnAttempts(call'[c])
          /\ call'[c].pc = "done" =>
                call'[c].ret = OwnResult(call'[c], http[call[c].h].maxRetries)
          /\ call'[c] # call[c] =>
                /\ \A d \in Calls \ {c} : call'[d] = call[d]
                /\ http' = http]_vars

\* Call 1 has returned the error of its last attempt, a 500, after maxRetries+1
\* attempts while call 2 is in flight with a network failure remembered.
C20_Witness ==
    /\ call[1].pc = "done"
    /\ call[1].ret.StatusCode = 500
    /\ call[1].nAttempts = http["direct"].maxRetries + 1
    /\ call[2].pc = "inflight"
    /\ call[2].lastErr.Code = ErrNetworkError

(***************************************************************************)
(* Properties of the loop's timing and order.                              *)
(***************************************************************************)
\* The pcs at which an attempt (executeRequest) is running.
InAttempt(r) == r.pc \in {"exec", "hdrToken", "setToken", "hdrAdmin", "setAdmin", "inflight"}

\* 1 + 2 + ... + a
SumTo(a) == (a * (a + 1)) \div 2

\* C21: attempt 0 runs with no wait behind it; attempt a >= 1 runs only once the
\* waits retryWait*1, ..., retryWait*a have elapsed in full, the wait before
\* attempt a being retryWait*a from the failure of attempt a-1; and a call that was
\* never cancelled and whose maxRetries+1 attempts all failed retryably has waited
\* retryWait * maxRetries*(maxRetries+1)/2 in all.
C21_LinearBackoff ==
    \A c \in Calls :
        LET r == call[c] IN
        /\ InAttempt(r) => r.waited = http[r.h].retryWait * SumTo(r.attempt)
        /\ r.pc = "backoff" =>
              /\ r.attempt >= 1
              /\ r.waited + r.wait = http[r.h].retryWait * SumTo(r.attempt)
        /\ (r.pc = "done" /\ r.ctx = "" /\ http[r.h].maxRetries >= 0
               /\ r.attempt = http[r.h].maxRetries + 1)
              => r.waited = http[r.h].retryWait * SumTo(http[r.h].maxRetries)

\* A call on a transport with maxRetries 3 and retryWait one second has failed four
\* times and has waited six seconds.
C21_Witness ==
    \E c \in Calls :
        /\ call[c].pc = "done"
        /\ call[c].ctx = ""
        /\ http[call[c].h].maxRetries = 3 /\ http[call[c].h].retryWait = Second
        /\ call[c].nAttempts = 4
        /\ call[c].waited = 6 * Second

\* C22: the attempts of a call come one after the other between its start and its
\* return: an attempt begins only from the loop, when no attempt of the call is
\* running and (after the first) the previous one has ended in a failure; at most
\* one request of the call is in flight; and once the call has returned it makes
\* no attempt, issues no request and waits no more.
C22_AttemptsSequential ==
    [][\A c \in Calls :
          LET r == call[c]
              q == call'[c] IN
          /\ q.nAttempts \in {r.nAttempts, r.nAttempts + 1}
          /\ q.nAttempts = r.nAttempts + 1 =>
                /\ r.pc = "exec"
                /\ r.nAttempts = r.attempt
                /\ r.nAttempts >= 1 => r.err.type \in {"Error", "QuotaError"}
          /\ q.issued \in {r.issued, r.issued + 1}
          /\ q.issued = r.issued + 1 => (r.pc # "inflight" /\ q.pc = "inflight")
          /\ q.issued <= q.nAttempts
          /\ r.pc = "done" =>
                /\ q.pc = "done" /\ q.ret = r.ret
                /\ q.nAttempts = r.nAttempts /\ q.issued = r.issued
                /\ q.waited = r.waited /\ q.wait = r.wait]_vars

\* A call has returned after three attempts and its context was cancelled afterwards.
C22_Witness ==
    \E c \in Calls :
        /\ call[c].pc = "done"
        /\ call[c].nAttempts = 3
        /\ call[c].cancelledAt = "done"

\* C23: a non-nil error returned by a verb of the transport has one kind, and the
\* kind is one of the nine of the closed set; its Code is never empty or other.
C23_ReturnedErrorHasKnownKind ==
    \A c \in Calls :
        (call[c].pc = "done" /\ call[c].ret.type # "nil") =>
            /\ call[c].ret.type \in {"Error", "QuotaError"}
            /\ call[c].ret.Code \in
                  {"unauthorized", "forbidden", "not_found", "bad_request", "quota_exceeded",
                   "internal_server", "network_error", "validation_error", "timeout"}

\* A call has returned the error of a 503 response: kind internal_server.
C23_Witness ==
    \E c \in Calls :
        /\ call[c].pc = "done"
        /\ call[c].ret.StatusCode = 503
        /\ call[c].ret.Code = "internal_server"

(***************************************************************************)
(* The loop against the four-state machine.                                *)
(***************************************************************************)
\* The state of the machine {Idle, Attempting, Backoff, Done} a call is in.  A
\* started call is Attempting until its first attempt has ended; after a
\* retryable failure the loop head stands for the state the machine has already
\* chosen: Backoff while attempts remain, Done when none remain.
MachineState(r, maxRetries) ==
    CASE r.pc = "idle" -> "Idle"
      [] r.pc = "loop" /\ r.attempt = 0 -> "Attempting"
      [] r.pc = "loop" /\ r.attempt > 0 /\ r.attempt <= maxRetries -> "Backoff"
      [] r.pc = "loop" /\ r.attempt > 0 /\ r.attempt > maxRetries -> "Done"
      [] r.pc = "backoff" -> "Backoff"
      [] r.pc = "done" -> "Done"
      [] OTHER -> "Attempting"

\* The outcome of the attempt that has just ended, as the machine's input.
Outcome(r) ==
    IF r.err.type = "nil" THEN "success"
    ELSE IF r.err.type = "Error" /\ r.err.StatusCode \in 400..499 THEN "non-retryable-failure"
    ELSE "retryable-failure"

\* One transition of the machine from a to b, q being the call after the step.
MachineStep(a, b, r, q, maxRetries) ==
    \/ a = b
    \/ a = "Idle" /\ b = "Attempting"
    \/ /\ a = "Attempting" /\ b = "Done"
       /\ q.nAttempts >= 1
       /\ \/ Outcome(q) = "success"
          \/ Outcome(q) = "non-retryable-failure"
          \/ Outcome(q) = "retryable-failure" /\ q.nAttempts = maxRetries + 1
    \/ /\ a = "Attempting" /\ b = "Backoff"
       /\ q.nAttempts >= 1
       /\ Outcome(q) = "retryable-failure" /\ q.nAttempts <= maxRetries
    \/ a = "Backoff" /\ b = "Attempting" /\ r.wait = 0
    \/ a = "Backoff" /\ b = "Done" /\ q.ctx # ""

\* The result of the machine in Done: nil after a success, the error of the last
\* attempt after a failure that ended the call, the timeout error after a
\* cancellation in Backoff.
MachineResult(q, maxRetries) ==
    IF Outcome(q) = "success" THEN q.err
    ELSE IF Outcome(q) = "non-retryable-failure" \/ q.nAttempts = maxRetries + 1 THEN q.err
    ELSE [type |-> "Error", Code |-> "timeout", Message |-> "request cancelled",
          StatusCode |-> 0, Details |-> NoDetails, Cause |-> q.ctx, Plan |-> "",
          Current |-> 0, Limit |-> 0, QuotaType |-> ""]

C24_LoopIsStateMachineFromZero ==
    [][\A c \in Calls :
          (call'[c].pc # "idle" /\ http[call'[c].h].maxRetries >= 0) =>
              LET n == http[call'[c].h].maxRetries IN
              /\ MachineStep(MachineState(call[c], n), MachineState(call'[c], n),
                             call[c], call'[c], n)
              /\ call'[c].pc = "done" =>
                    /\ call'[c].nAttempts >= 1
                    /\ call'[c].ret = MachineResult(call'[c], n)]_vars

\* C26: an attempt that receives a response below 400 whose non-empty body does not
\* decode into the destination fails with an internal_server error without status
\* code, and the call goes on as after any retryable failure: it is at the loop or
\* in backoff for the next attempt of the same request, or it has returned that
\* error after maxRetries+1 attempts, or the timeout error of a cancelled backoff.
C26_DecodeFailureRetried ==
    \A c \in Calls :
        LET r == call[c] IN
        (r.resp.status \in 1..399 /\ r.result /\ r.resp.body.raw # "" /\ ~r.resp.body.fits)
            => /\ r.err.type = "Error" /\ r.err.Code = "internal_server"
               /\ r.err.StatusCode = 0 /\ r.err.Message = "failed to parse response"
               /\ \/ r.pc \in {"loop", "backoff", "exec"} /\ r.lastErr = r.err
                  \/ /\ r.pc = "done" /\ r.ret = r.err
                     /\ r.nAttempts = http[r.h].maxRetries + 1
                  \/ r.pc = "done" /\ r.ret.Code = "timeout" /\ r.ctx # ""

\* A POST whose first answer was a success that did not decode is in flight again.
C26_Witness ==
    \E c \in Calls :
        /\ call[c].method = "POST" /\ call[c].body = "ok"
        /\ call[c].pc = "inflight"
        /\ call[c].issued = 2
        /\ call[c].lastErr.Message = "failed to parse response"

\* C27: each attempt reads the credential fields anew: the tests of header
\* construction decide on the value the field holds at that step and, when no
\* setter runs at that very step, the header gets the value the field holds then,
\* whatever the earlier attempts of the call have sent.  A value set between two
\* attempts is therefore the one the later attempt carries.
C27_CredentialsReadEachAttempt ==
    [][\A c \in Calls :
          LET r == call[c]
              q == call'[c] IN
          /\ (r.pc = "hdrToken" /\ q # r) =>
                q.pc = (IF http[r.h].token # "" THEN "setToken" ELSE "hdrAdmin")
          /\ (r.pc = "setToken" /\ q.pc = "hdrAdmin" /\ http' = http) =>
                q.auth = [set |-> TRUE, value |-> http[r.h].token]
          /\ (r.pc = "hdrAdmin" /\ q # r) =>
                q.pc = (IF http[r.h].adminToken # "" THEN "setAdmin" ELSE "inflight")
          /\ (r.pc = "setAdmin" /\ q.pc = "inflight" /\ http' = http) =>
                q.admin = [set |-> TRUE, value |-> http[r.h].adminToken]]_vars

\* The second request of a call is in flight with another bearer token than the first.
C27_Witness ==
    \E c \in Calls :
        /\ call[c].pc = "inflight"
        /\ call[c].issued = 2
        /\ call[c].prevAuth = [set |-> TRUE, value |-> "tokA"]
        /\ call[c].auth = [set |-> TRUE, value |-> "longer-token"]

\* C28: the loop looks at the cancellation only in the select before an attempt
\* a >= 1.  A call whose context is cancelled before it starts still runs attempt
\* 0; a call returns a timeout error only by a step out of a backoff wait, with
\* attempts left; and a transport with maxRetries = 0 returns no timeout error.
C28_CancellationSeenOnlyInBackoff ==
    [][\A c \in Calls :
          LET r == call[c]
              q == call'[c] IN
          /\ (r.pc = "loop" /\ r.attempt = 0 /\ http[r.h].maxRetries >= 0 /\ q.pc # r.pc)
                => q.pc = "exec"
          /\ (r.pc = "exec" /\ q.pc # r.pc) => q.nAttempts = r.nAttempts + 1
          /\ (q.pc = "done" /\ r.pc # "done" /\ q.ret.Code = "timeout")
                => /\ r.pc = "backoff" /\ r.ctx # ""
                   /\ r.attempt >= 1 /\ r.attempt <= http[r.h].maxRetries
          /\ (q.pc = "done" /\ http[q.h].maxRetries = 0) => q.ret.Code # "timeout"
          /\ (q.pc = "done" /\ q.cancelledAt = "idle" /\ http[q.h].maxRetries >= 0)
                => q.nAttempts >= 1]_vars

\* A call on a transport with maxRetries = 0 whose context was cancelled before the
\* call has made its one attempt and returned a network error.
C28_Witness ==
    \E c \in Calls :
        /\ call[c].pc = "done"
        /\ call[c].cancelledAt = "idle"
        /\ http[call[c].h].maxRetries = 0
        /\ call[c].nAttempts = 1 /\ call[c].issued = 1
        /\ call[c].ret.Code = "network_error"

ItemSucceeded(c) ==
    /\ call[c].pc = "done"
    /\ call[c].ret = NilErr
    /\ call[c].resp.status \in 200..399

\* Item c is sent as the c-th element of the slice, to POST /sensors, after every
\* earlier item has succeeded, and within its own retry budget.
SentInOrder(c) ==
    call[c].pc # "idle" =>
       /\ batch.pc # "idle"
       /\ c <= Len(batch.data)
       /\ c <= batch.i
       /\ call[c].body = batch.data[c]
       /\ call[c].method = "POST" /\ call[c].h = ServiceTransport("Sensors")
       /\ \A j \in 1..(c - 1) : ItemSucceeded(j)
       /\ call[c].nAttempts <= http[call[c].h].maxRetries + 1
       /\ call[c].attempt <= call[c].nAttempts

\* What SendMultiple has returned, against the calls of the items.
ReturnOfSendMultiple ==
    batch.pc = "done" =>
       /\ batch.ret = NilErr <=> \A c \in 1..Len(batch.data) : ItemSucceeded(c)
       /\ batch.ret # NilErr =>
             \E c \in 1..Len(batch.data) :
                /\ call[c].pc = "done"
                /\ call[c].ret = batch.ret
                /\ \A j \in 1..(c - 1) : ItemSucceeded(j)
                /\ \A j \in (c + 1)..Len(batch.data) :
                      call[j].pc = "idle" /\ call[j].nAttempts = 0 /\ call[j].issued = 0

\* C30: SendMultiple sends the items one at a time in slice order, each as a
\* doRequest invocation with its own retry budget; it returns nil exactly when
\* every item's call succeeded, and otherwise the error of the first item whose
\* call failed, with no later item sent; a call that has returned is not touched
\* again, so what it sent stays sent.
C30_SendMultipleStopsAtFirstFailure ==
    /\ [](\A c \in Calls : SentInOrder(c))
    /\ []ReturnOfSendMultiple
    /\ [][\A c \in Calls : call[c].pc = "done" => call'[c] = call[c]]_vars

\* Three items: the first succeeded after a retry, the second failed after all four
\* attempts of its own, the third was never sent, and SendMultiple returned the
\* second's error.
C30_Witness ==
    /\ batch.pc = "done"
    /\ Len(batch.data) = 3
    /\ ItemSucceeded(1) /\ call[1].nAttempts = 2 /\ call[1].issued >= 1
    /\ call[2].pc = "done" /\ call[2].ret # NilErr /\ call[2].nAttempts = DefaultMaxRetries + 1
    /\ call[3].pc = "idle"
    /\ batch.ret = call[2].ret

(***************************************************************************)
(* Termination.                                                            *)
(***************************************************************************)
\* C25: a call that has started eventually returns, given that each attempt and
\* each backoff wait completes, and at no time has a call made more than
\* maxRetries+1 attempts.
C25_CallTerminates ==
    \A c \in {1} :
        /\ (call[c].pc # "idle") ~> (call[c].pc = "done")
        /\ [](call[c].pc # "idle" =>
                 (call[c].nAttempts <= http[call[c].h].maxRetries + 1 \/ call[c].nAttempts = 0))

\* A call on a transport with maxRetries 3 has returned after four attempts.
C25_Witness ==
    \E c \in Calls :
        /\ call[c].pc = "done"
        /\ http[call[c].h].maxRetries = 3
        /\ call[c].nAttempts = 4
        /\ call[c].waited = 6 * http[call[c].h].retryWait

====
